---- MODULE Spec2Model ----
(***************************************************************************)
(* Model of the multi-turn guardrails chat loop of the notebook            *)
(* "Guardrails with LangChain.ipynb": create_guardrails_format,            *)
(* convert_to_standard_format and run_chat_interface.                      *)
(*                                                                         *)
(* Text is modelled as a sequence of one-character strings, so that        *)
(* str.strip() and str.lower() are computed rather than assumed.           *)
(* A Python tuple (role, content) is a record with form "tuple"; the dict  *)
(* built by create_guardrails_format is a record with form "dict".         *)
(***************************************************************************)
EXTENDS Integers, Sequences, FiniteSets, TLC

VARIABLES
    conversation_history, \* the list run_chat_interface owns
    user_input,           \* input("You: ").strip() of the current iteration
    line,                 \* the raw line input() returned in the current iteration
    printed,              \* the most recent write to standard output
    pc,                   \* position of run_chat_interface
    calls,                \* number of llm.invoke calls made so far
    exchanges,            \* <<text, response>> of every llm.invoke that returned
    history_at_input      \* conversation_history when the current line was read

vars == <<conversation_history, user_input, line, printed, pc, calls,
          exchanges, history_at_input>>

(***************************************************************************)
(* Bounds                                                                  *)
(***************************************************************************)
\* llm.invoke is called at most this many times in one session
MaxCalls == 3

\* longest message_history handed to convert_to_standard_format on its own
MaxHistory == 3

(***************************************************************************)
(* Text helpers: str.strip() and str.lower()                               *)
(***************************************************************************)
Whitespace == {" ", "\t", "\n", "\r", "\f"}

UpperLetters == <<"A","B","C","D","E","F","G","H","I","J","K","L","M",
                  "N","O","P","Q","R","S","T","U","V","W","X","Y","Z">>

LowerLetters == <<"a","b","c","d","e","f","g","h","i","j","k","l","m",
                  "n","o","p","q","r","s","t","u","v","w","x","y","z">>

LowerChar(c) ==
    IF \E i \in 1..Len(UpperLetters) : UpperLetters[i] = c
    THEN LowerLetters[CHOOSE i \in 1..Len(UpperLetters) : UpperLetters[i] = c]
    ELSE c

\* str.lower()
lower(s) == [i \in 1..Len(s) |-> LowerChar(s[i])]

RECURSIVE lstrip(_)
lstrip(s) ==
    IF s # <<>> /\ Head(s) \in Whitespace THEN lstrip(Tail(s)) ELSE s

RECURSIVE rstrip(_)
rstrip(s) ==
    IF s # <<>> /\ s[Len(s)] \in Whitespace
    THEN rstrip(SubSeq(s, 1, Len(s) - 1))
    ELSE s

\* the line is used as typed: the .strip() call is missing
strip_none(s) == s

\* str.strip()
strip(s) == rstrip(lstrip(s))

QUIT == <<"q","u","i","t">>

DEBUG_DUMP == <<"d","e","b","u","g","_","d","u","m","p">>

(***************************************************************************)
(* Inputs                                                                  *)
(***************************************************************************)
\* lines the operator may type
InputLines ==
    { <<>>,
      <<" ">>,
      <<"\t", " ">>,
      QUIT,
      <<"Q","U","I","T">>,
      <<" ","q","u","i","t"," ">>,
      DEBUG_DUMP,
      <<"D","e","b","u","g","_","D","u","m","p"," ">>,
      <<"H","i">>,
      <<" ","o","k","\t">> }

\* ai_response.content values the collaborator may return
Responses == { <<"y","e","s">>, <<"n","o">> }

\* exceptions llm.invoke may raise
Errors == { "ModerationBlocked", "TransportError", "ValidationError" }

(***************************************************************************)
(* Messages                                                                *)
(***************************************************************************)
\* a Python tuple (role, content)
Tuple(role, content) == [form |-> "tuple", role |-> role, content |-> content]

\* the system prompt is one opaque token: no character operation touches it
SYSTEM_PROMPT ==
    <<"You are a helpful assistant that helps customers with bank related tasks like opening a checking or savings bank account, check balances.">>

SystemTurn == Tuple("system", SYSTEM_PROMPT)

create_guardrails_format(text) ==
    [form |-> "dict",
     role |-> "user",
     content |-> << [guardContent |-> [text |-> [text |-> text]]] >>]

\* isinstance(message, dict)
IsDict(message) == message.form = "dict"

\* the dict branch is missing: every message is passed through
convert_keep_dicts(message_history) == message_history

\* the dict branch drops the message instead of appending its tuple
convert_drop_dicts(message_history) ==
    SelectSeq(message_history, LAMBDA message : ~IsDict(message))

convert_to_standard_format(message_history) ==
    [i \in 1..Len(message_history) |->
        IF IsDict(message_history[i])
        THEN Tuple(message_history[i].role,
                   message_history[i].content[1].guardContent.text.text)
        ELSE message_history[i]]

(***************************************************************************)
(* Standard output                                                         *)
(***************************************************************************)
Out(kind, history, text) == [kind |-> kind, history |-> history, text |-> text]

(***************************************************************************)
(* run_chat_interface                                                      *)
(***************************************************************************)
Init ==
    /\ conversation_history = <<SystemTurn>>
    /\ user_input = <<>>
    /\ line = <<>>
    /\ printed = Out("started", <<>>, <<>>)
    /\ pc = "AwaitingInput"
    /\ calls = 0
    /\ exchanges = <<>>
    /\ history_at_input = <<SystemTurn>>

\* input("You: ").strip() at the top of the loop
Read(l) ==
    /\ pc = "AwaitingInput"
    /\ line' = l
    /\ user_input' = strip(l)
    /\ history_at_input' = conversation_history

\* if user_input.lower() == 'quit': print, break
Quit(l) ==
    /\ Read(l)
    /\ lower(user_input') = QUIT
    /\ printed' = Out("ended", <<>>, <<>>)
    /\ pc' = "Ended"
    /\ UNCHANGED <<conversation_history, calls, exchanges>>

\* if not user_input: print, continue
EmptyInput(l) ==
    /\ Read(l)
    /\ lower(user_input') # QUIT
    /\ user_input' = <<>>
    /\ printed' = Out("empty", <<>>, <<>>)
    /\ pc' = "AwaitingInput"
    /\ UNCHANGED <<conversation_history, calls, exchanges>>

\* the dump also stores the converted history back
DebugDump_Standardizes(l) ==
    /\ Read(l)
    /\ lower(user_input') # QUIT
    /\ user_input' # <<>>
    /\ lower(user_input') = DEBUG_DUMP
    /\ printed' = Out("dump", conversation_history, <<>>)
    /\ conversation_history' = convert_to_standard_format(conversation_history)
    /\ pc' = "AwaitingInput"
    /\ UNCHANGED <<calls, exchanges>>

\* if user_input.lower() == 'debug_dump': print the history, continue
DebugDump(l) ==
    /\ Read(l)
    /\ lower(user_input') # QUIT
    /\ user_input' # <<>>
    /\ lower(user_input') = DEBUG_DUMP
    /\ printed' = Out("dump", conversation_history, <<>>)
    /\ pc' = "AwaitingInput"
    /\ UNCHANGED <<conversation_history, calls, exchanges>>

\* the guarded turn is built from user_input.lower()
Submit_Lowercased(l) ==
    /\ Read(l)
    /\ calls < MaxCalls
    /\ lower(user_input') # QUIT
    /\ user_input' # <<>>
    /\ lower(user_input') # DEBUG_DUMP
    /\ conversation_history' =
          Append(convert_to_standard_format(conversation_history),
                 create_guardrails_format(lower(user_input')))
    /\ calls' = calls + 1
    /\ pc' = "Submitting"
    /\ UNCHANGED <<printed, exchanges>>

\* the guarded turn is appended before the conversion, which un-tags it
Submit_ConvertAfterAppend(l) ==
    /\ Read(l)
    /\ calls < MaxCalls
    /\ lower(user_input') # QUIT
    /\ user_input' # <<>>
    /\ lower(user_input') # DEBUG_DUMP
    /\ conversation_history' =
          convert_to_standard_format(
              Append(conversation_history,
                     create_guardrails_format(user_input')))
    /\ calls' = calls + 1
    /\ pc' = "Submitting"
    /\ UNCHANGED <<printed, exchanges>>

\* try: convert, append the guarded turn, enter llm.invoke
Submit(l) ==
    /\ Read(l)
    /\ calls < MaxCalls
    /\ lower(user_input') # QUIT
    /\ user_input' # <<>>
    /\ lower(user_input') # DEBUG_DUMP
    /\ conversation_history' =
          Append(convert_to_standard_format(conversation_history),
                 create_guardrails_format(user_input'))
    /\ calls' = calls + 1
    /\ pc' = "Submitting"
    /\ UNCHANGED <<printed, exchanges>>

\* the assistant turn is inserted at index 0 instead of appended
InvokeSuccess_Prepend(content) ==
    /\ pc = "Submitting"
    /\ conversation_history' =
          <<Tuple("assistant", content)>> \o conversation_history
    /\ printed' = Out("assistant", <<>>, content)
    /\ exchanges' = Append(exchanges, <<user_input, content>>)
    /\ pc' = "AwaitingInput"
    /\ UNCHANGED <<user_input, line, calls, history_at_input>>

\* llm.invoke returns: append the assistant turn, print it
InvokeSuccess(content) ==
    /\ pc = "Submitting"
    /\ conversation_history' =
          Append(conversation_history, Tuple("assistant", content))
    /\ printed' = Out("assistant", <<>>, content)
    /\ exchanges' = Append(exchanges, <<user_input, content>>)
    /\ pc' = "AwaitingInput"
    /\ UNCHANGED <<user_input, line, calls, history_at_input>>

\* llm.invoke raises: the handler prints the error, then
\* conversation_history.popRight() raises AttributeError (a list has no
\* popRight), which leaves run_chat_interface with the history untouched
InvokeFail(e) ==
    /\ pc = "Submitting"
    /\ printed' = Out("error", <<>>, <<e>>)
    /\ pc' = "Raised"
    /\ UNCHANGED <<conversation_history, user_input, line, calls, exchanges,
                   history_at_input>>

Next ==
    \/ \E l \in InputLines : Quit(l)
    \/ \E l \in InputLines : EmptyInput(l)
    \/ \E l \in InputLines : DebugDump(l)
    \/ \E l \in InputLines : Submit(l)
    \/ \E content \in Responses : InvokeSuccess(content)
    \/ \E e \in Errors : InvokeFail(e)

Spec == Init /\ [][Next]_vars

(***************************************************************************)
(* convert_to_standard_format on its own: any list of tuples and           *)
(* create_guardrails_format dicts is converted once, next to the session.  *)
(***************************************************************************)
\* user texts of the messages
Texts == { <<"H","i">>, <<"o","k">> }

\* the messages a history is made of: tuples of the three roles and the
\* dicts create_guardrails_format builds
Messages ==
    {SystemTurn}
        \cup { Tuple("user", t) : t \in Texts }
        \cup { Tuple("assistant", content) : content \in Responses }
        \cup { create_guardrails_format(t) : t \in Texts }

Histories == UNION { [1..n -> Messages] : n \in 0..MaxHistory }

\* a message_history about to be passed to convert_to_standard_format
InitConvert ==
    /\ conversation_history \in Histories
    /\ history_at_input = conversation_history
    /\ user_input = <<>>
    /\ line = <<>>
    /\ printed = Out("started", <<>>, <<>>)
    /\ pc = "Unconverted"
    /\ calls = 0
    /\ exchanges = <<>>

\* conversation_history = convert_to_standard_format(conversation_history)
Convert ==
    /\ pc = "Unconverted"
    /\ conversation_history' = convert_to_standard_format(conversation_history)
    /\ pc' = "Converted"
    /\ UNCHANGED <<user_input, line, printed, calls, exchanges,
                   history_at_input>>

InitUntag == Init \/ InitConvert

NextUntag == Next \/ Convert

SpecUntag == InitUntag /\ [][NextUntag]_vars

(***************************************************************************)
(* Vocabulary of the properties                                            *)
(***************************************************************************)
\* positions of the turns in Tagged (guardContent) form
TaggedPositions(h) == { i \in 1..Len(h) : h[i].form = "dict" }

\* the text a turn carries, whichever form it is in
TurnText(m) ==
    IF m.form = "dict" THEN m.content[1].guardContent.text.text ELSE m.content

\* a turn in plain (role, content) form
IsPlain(m) ==
    /\ m.form = "tuple"
    /\ m.role \in {"system", "user", "assistant"}

\* a turn in Tagged form carrying text t
IsTaggedWith(m, t) ==
    /\ m.form = "dict"
    /\ m.role = "user"
    /\ m.content = << [guardContent |-> [text |-> [text |-> t]]] >>

\* the initial system turn
IsInitialSystemTurn(m) ==
    /\ m.form = "tuple"
    /\ m.role = "system"
    /\ m.content = SYSTEM_PROMPT

\* a line that is empty or made of whitespace only
IsBlank(l) == \A i \in 1..Len(l) : l[i] \in Whitespace

\* number of submissions that succeeded
NumSuccessful == Len(exchanges)

\* the loop is between two iterations or has left through quit
BetweenSubmissions == pc \in {"AwaitingInput", "Ended"}

(***************************************************************************)
(* C1: after a submission whose llm.invoke raised, the Transcript is       *)
(* identical to the Transcript before the submission (the appended tagged  *)
(* turn is removed and nothing else is touched).                           *)
(***************************************************************************)
C1_FailedSubmissionRestoresTranscript ==
    printed.kind = "error" => conversation_history = history_at_input

(***************************************************************************)
(* C2: no collaborator failure ends the session: after a failure the loop  *)
(* is awaiting input again, and the loop is left only through quit.        *)
(***************************************************************************)
C2_OnlyQuitEndsSession ==
    /\ printed.kind = "error" => pc = "AwaitingInput"
    /\ pc \notin {"AwaitingInput", "Submitting"} => printed.kind = "ended"

(***************************************************************************)
(* C3: at every call of llm.invoke the submitted sequence has exactly one  *)
(* Tagged turn, it is the last element and carries the current user text,  *)
(* and every other element is a plain (role, content) turn.                *)
(***************************************************************************)
C3_OneTaggedLastAtInvoke ==
    pc = "Submitting" =>
        LET h == conversation_history IN
        /\ TaggedPositions(h) = {Len(h)}
        /\ IsTaggedWith(h[Len(h)], user_input)
        /\ \A i \in 1..(Len(h) - 1) : IsPlain(h[i])

\* an invoke after two successful submissions and a debug dump
C3_Witness ==
    /\ pc = "Submitting"
    /\ NumSuccessful = 2
    /\ printed.kind = "dump"

(***************************************************************************)
(* C4: every successful submission grows the Transcript by exactly 2       *)
(* elements, the user turn for the submitted text and then the assistant   *)
(* turn with the returned content; after n successful submissions the      *)
(* Transcript length is 1 + 2n.                                            *)
(***************************************************************************)
C4_GrowsByTwoPerSuccess ==
    LET h == conversation_history IN
    /\ BetweenSubmissions =>
          /\ Len(h) = 1 + 2 * NumSuccessful
          /\ \A k \in 1..NumSuccessful :
                /\ h[2 * k].role = "user"
                /\ TurnText(h[2 * k]) = exchanges[k][1]
                /\ h[2 * k + 1].form = "tuple"
                /\ h[2 * k + 1].role = "assistant"
                /\ h[2 * k + 1].content = exchanges[k][2]
    /\ (pc = "AwaitingInput" /\ printed.kind = "assistant") =>
          /\ Len(h) = Len(history_at_input) + 2
          /\ h[Len(h) - 1].role = "user"
          /\ TurnText(h[Len(h) - 1]) = user_input
          /\ h[Len(h)].content = printed.text

\* the third successful submission has just completed
C4_Witness ==
    /\ pc = "AwaitingInput"
    /\ printed.kind = "assistant"
    /\ NumSuccessful = 3

(***************************************************************************)
(* C5 as stated: a debug dump after n successful submissions shows         *)
(* 1 + 2n turns and none of them is in Tagged form.                        *)
(***************************************************************************)
C5_DumpShowsNoTagged ==
    printed.kind = "dump" =>
        /\ Len(printed.history) = 1 + 2 * NumSuccessful
        /\ TaggedPositions(printed.history) = {}

(***************************************************************************)
(* C5 amended: a debug dump after n successful submissions shows 1 + 2n    *)
(* turns in insertion order; the user turn of the most recent completed    *)
(* submission is still in Tagged form and every other turn is plain.       *)
(***************************************************************************)
C5_DumpShowsLastUserTagged ==
    printed.kind = "dump" =>
        LET d == printed.history
            n == NumSuccessful
        IN
        /\ Len(d) = 1 + 2 * n
        /\ IsInitialSystemTurn(d[1])
        /\ TaggedPositions(d) = (IF n = 0 THEN {} ELSE {2 * n})
        /\ \A k \in 1..n :
              /\ d[2 * k].role = "user"
              /\ TurnText(d[2 * k]) = exchanges[k][1]
              /\ d[2 * k + 1].role = "assistant"
              /\ d[2 * k + 1].content = exchanges[k][2]

\* a dump issued after two successful submissions
C5_Witness ==
    /\ printed.kind = "dump"
    /\ pc = "AwaitingInput"
    /\ NumSuccessful = 2

(***************************************************************************)
(* C6: an empty or whitespace-only line never triggers a collaborator call *)
(* and leaves the Transcript unchanged; the session prompts again.         *)
(***************************************************************************)
C6_BlankLineIsNoOp ==
    [][ (pc = "AwaitingInput" /\ IsBlank(line')) =>
            /\ calls' = calls
            /\ conversation_history' = conversation_history
            /\ exchanges' = exchanges
            /\ pc' = "AwaitingInput"
            /\ printed'.kind = "empty" ]_vars

\* a whitespace-only line was rejected after a successful submission
C6_Witness ==
    /\ printed.kind = "empty"
    /\ line # <<>>
    /\ IsBlank(line)
    /\ NumSuccessful >= 1

(***************************************************************************)
(* C7: the debug dump outputs the current Transcript verbatim, makes no    *)
(* collaborator call and leaves the Transcript unchanged, so the next      *)
(* submission sends what it would have sent without the dump.              *)
(***************************************************************************)
C7_DumpIsReadOnly ==
    [][ (pc = "AwaitingInput" /\ lower(strip(line')) = DEBUG_DUMP) =>
            /\ printed'.kind = "dump"
            /\ printed'.history = conversation_history
            /\ conversation_history' = conversation_history
            /\ calls' = calls
            /\ exchanges' = exchanges
            /\ pc' = "AwaitingInput" ]_vars

\* a submission entered after a dump that followed a successful submission
C7_Witness ==
    /\ printed.kind = "dump"
    /\ TaggedPositions(printed.history) # {}
    /\ pc = "Submitting"

(***************************************************************************)
(* C8: in every reachable state the Transcript is non-empty, its first     *)
(* element is the initial system turn, and no other element has role       *)
(* system.                                                                 *)
(***************************************************************************)
C8_SingleLeadingSystemTurn ==
    LET h == conversation_history IN
    /\ Len(h) >= 1
    /\ IsInitialSystemTurn(h[1])
    /\ \A i \in 2..Len(h) : h[i].role # "system"

\* a failed submission after two successful ones
C8_Witness ==
    /\ pc = "Raised"
    /\ NumSuccessful = 2

(***************************************************************************)
(* C9 as stated: every line that is non-empty after trimming and is not    *)
(* the literal command quit or the debug-dump keyword causes exactly one   *)
(* collaborator submission carrying that text, with no retry.              *)
(***************************************************************************)
C9_LiteralCommandsOnly ==
    [][ /\ (/\ pc = "AwaitingInput"
            /\ strip(line') # <<>>
            /\ strip(line') \notin {QUIT, DEBUG_DUMP}) =>
               /\ pc' = "Submitting"
               /\ calls' = calls + 1
               /\ IsTaggedWith(conversation_history'[Len(conversation_history')],
                               strip(line'))
        /\ pc # "AwaitingInput" => calls' = calls ]_vars

(***************************************************************************)
(* C9 amended: every line whose trimmed text is non-empty and, lowercased, *)
(* is neither quit nor debug_dump causes exactly one collaborator          *)
(* submission carrying the trimmed text, with no retry after a failure.    *)
(***************************************************************************)
C9_ContentLineSubmitsOnce ==
    [][ /\ (/\ pc = "AwaitingInput"
            /\ strip(line') # <<>>
            /\ lower(strip(line')) \notin {QUIT, DEBUG_DUMP}) =>
               /\ pc' = "Submitting"
               /\ calls' = calls + 1
               /\ IsTaggedWith(conversation_history'[Len(conversation_history')],
                               strip(line'))
        /\ (/\ pc = "AwaitingInput"
            /\ lower(strip(line')) \in {QUIT, DEBUG_DUMP}) => calls' = calls
        /\ pc # "AwaitingInput" => calls' = calls ]_vars

\* a line with surrounding whitespace and an upper-case letter was submitted
\* once and its call failed
C9_Witness ==
    /\ pc = "Raised"
    /\ line # user_input
    /\ calls = NumSuccessful + 1
    /\ NumSuccessful >= 1

C11_UntaggingLosesNothing ==
    LET h == history_at_input
        c == conversation_history
        n == NumSuccessful
    IN
    /\ pc = "Converted" =>
          /\ Len(c) = Len(h)
          /\ \A i \in 1..Len(h) :
                /\ h[i].form = "tuple" => c[i] = h[i]
                /\ h[i].form = "dict" =>
                      /\ c[i].form = "tuple"
                      /\ c[i].role = "user"
                      /\ c[i].content = TurnText(h[i])
          /\ convert_to_standard_format(c) = c
    /\ pc = "Submitting" =>
          /\ Len(c) = 2 * n + 2
          /\ IsInitialSystemTurn(c[1])
          /\ \A k \in 1..n :
                /\ c[2 * k].form = "tuple"
                /\ c[2 * k].role = "user"
                /\ c[2 * k].content = exchanges[k][1]
                /\ c[2 * k + 1].form = "tuple"
                /\ c[2 * k + 1].role = "assistant"
                /\ c[2 * k + 1].content = exchanges[k][2]
          /\ IsTaggedWith(c[2 * n + 2], user_input)

\* a converted history that held two Tagged turns with different texts and
\* a plain turn
C11_Witness ==
    /\ pc = "Converted"
    /\ \E i, j \in TaggedPositions(history_at_input) :
          TurnText(history_at_input[i]) # TurnText(history_at_input[j])
    /\ \E i \in 1..Len(history_at_input) : history_at_input[i].form = "tuple"
    /\ TaggedPositions(conversation_history) = {}

====
